---- MODULE Spec2Model ----
(***************************************************************************)
(* Quote path of the investment platform: APIManager.getQuote with its     *)
(* provider selector, the KV quote cache, the api_usage table, the         *)
(* POST /api/admin/config handler and the GET /api/quote/:symbol routes.   *)
(***************************************************************************)
EXTENDS Integers, Sequences, FiniteSets, TLC

\* ---------------------------------------------------------------- bounds
MaxCalls == 2
MaxTicks == 2
Tick == 30000
MaxAdmin == 2
MaxFaults == 1
MaxSockets == 7
MaxErrors == 6
\* update cycles of one stream that may be in progress together
MaxCycles == 2
\* initializeRealtime calls on one RealtimeManager
MaxInits == 2
\* callbacks registered with onQuoteUpdate, quote events handled
MaxCallbacks == 3
MaxEvents == 2
\* sell requests sent to the portfolio route
MaxSells == 3
\* buy requests sent to the portfolio route
MaxBuys == 2

\* ------------------------------------------------------ program constants
TTL == 60000
ReconnectDelayMs == 5000
SeedQtyAAPL == 50
MaxRetries == 5
BackoffBaseMs == 1000
BackoffCeilingMs == 30000
\* prices in cents: the seeded last_price of AAPL, and the AAPL row of demoData
SeedPriceAAPL == 19589
DemoPriceAAPL == 19589
SeedPriceMSFT == 41526
DemoSymbols == {"AAPL"}

allProviders == <<"finnhub", "twelve_data">>
Providers == {"finnhub", "twelve_data"}
AdminNames == Providers \cup {"alpha_vantage"}
Symbols == {"AAPL", "SHOP"}
\* symbols of trade requests: AAPL is held, MSFT is listed but not held, SHOP is unknown
Listed == Symbols \cup {"MSFT"}
Callers == {"r1", "r2"}
SeqCallers == {"r1"}
\* sell requests in flight; SeqSellers sends them one at a time
Sellers == {"t1", "t2"}
SeqSellers == {"t1"}
\* quantities of sell requests: part of the seeded holding, all of it, more than it
SellQuantities == {20, SeedQtyAAPL, 60}
\* buy requests, for securities already listed
Buyers == {"b1"}
BuyQuantities == {10}
Admins == {"a1", "a2"}

NULL == "NULL"
NoKey == ""
THROW == "THROW"

\* ------------------------------------------------------------ JS values
\* a JavaScript number-valued field: a number, NaN, undefined, or JSON null
NumV(n) == <<"num", n>>
NaN == <<"NaN", 0>>
Undefined == <<"undefined", 0>>
JsonNull == <<"null", 0>>

\* c - pc in JavaScript: NaN when an operand is not a number
JsSub(a, b) == IF a[1] = "num" /\ b[1] = "num" THEN NumV(a[2] - b[2]) ELSE NaN

\* parseFloat(x || 0): undefined falls back to 0, an unparsable string is NaN
ParseFloatOr0(x) == IF x = Undefined THEN NumV(0) ELSE x

MkQuote(sym, price, change, src) ==
    [kind |-> "quote", symbol |-> sym, price |-> price, change |-> change, src |-> src]
Null == [kind |-> "null", symbol |-> "", price |-> 0, change |-> Undefined, src |-> ""]
Thrown == [kind |-> "throw", symbol |-> "", price |-> 0, change |-> Undefined, src |-> ""]

\* JSON.stringify followed by cache.get(key, 'json'): NaN is written as null
JSONRoundTrip(q) == [q EXCEPT !.change = IF @ = NaN THEN JsonNull ELSE @]

NoEntry == [present |-> FALSE, data |-> Null, timestamp |-> 0]
Entry(q, t) == [present |-> TRUE, data |-> JSONRoundTrip(q), timestamp |-> t]

VARIABLES env, db, cache, now, api_usage, nFetch, calls, last, nCalls,
          admin, nAdmin, faultsLeft, order, securities, http, stockCache,
          rmd, holdings, transactions, sell, nSells, buy, nBuys, sse, rt, upd

vars == <<env, db, cache, now, api_usage, nFetch, calls, last, nCalls, admin, nAdmin,
          faultsLeft, order, securities, http, stockCache,
          rmd, holdings, transactions, sell, nSells, buy, nBuys, sse, rt, upd>>

adminVars == <<admin, nAdmin>>
selectorVars == <<order>>
routeVars == <<securities, http>>
legacyVars == <<stockCache>>
clientVars == <<rmd>>
streamVars == <<sse>>
managerVars == <<rt>>
callbackVars == <<upd>>
realtimeVars == <<clientVars, streamVars, managerVars, callbackVars>>
sellVars == <<sell, nSells>>
buyVars == <<buy, nBuys>>
tradeVars == <<holdings, transactions, sellVars, buyVars>>
\* everything the quote path, the admin route and the quote routes own
quoteState == <<env, db, cache, now, api_usage, nFetch, calls, last, nCalls, adminVars,
                selectorVars, routeVars, legacyVars>>
quoteVars == <<quoteState, faultsLeft>>

\* everything but the fields of RealtimeMarketData
notClientVars == <<quoteVars, tradeVars, streamVars, managerVars, callbackVars>>
\* everything but the state of one /api/realtime stream
notStreamVars == <<quoteVars, tradeVars, clientVars, managerVars, callbackVars>>
\* everything but the fields of RealtimeManager (env is read only)
notManagerVars == <<quoteVars, tradeVars, clientVars, streamVars, callbackVars>>
\* everything but updateCallbacks and priceCache of RealtimeMarketData
notCallbackVars == <<quoteVars, tradeVars, clientVars, streamVars, managerVars>>
\* everything but the portfolio tables, the sell requests and the fault budget
notTradeVars == <<quoteState, realtimeVars>>

\* ------------------------------------------------------------- selector
\* keyMap[provider] || null
getApiKey(e, p) == IF e[p] # NoKey THEN e[p] ELSE NULL

\* rows of the default query (LIMIT 1 without ORDER BY returns any of them)
DefaultRows(d) ==
    {p \in Providers : d[p].is_active /\ d[p].is_default /\ d[p].api_key # NULL}

FirstKeyed(e) ==
    IF getApiKey(e, allProviders[1]) # NULL THEN allProviders[1]
    ELSE IF getApiKey(e, allProviders[2]) # NULL THEN allProviders[2]
    ELSE THROW

\* the names getActiveProvider can return; THROW is the thrown Error
getActiveProvider(d, e) ==
    IF DefaultRows(d) # {} THEN DefaultRows(d) ELSE {FirstKeyed(e)}

Includes(seq, x) == \E k \in 1..Len(seq) : seq[k] = x

\* the fallback loop without the `!providers.includes(p)` test
AddFallback_NoDedup(providers, e, p) ==
    IF getApiKey(e, p) # NULL THEN Append(providers, p) ELSE providers

\* one pass of the fallback loop over allProviders
AddFallback(providers, e, p) ==
    IF ~Includes(providers, p) /\ getApiKey(e, p) # NULL
    THEN Append(providers, p) ELSE providers

\* try { push(getActiveProvider()) } catch {}
PushDefault(def) == IF def = THROW THEN <<>> ELSE <<def>>

getProviderOrder(def, e) ==
    AddFallback(AddFallback(PushDefault(def), e, allProviders[1]), e, allProviders[2])

\* ---------------------------------------------------------------- cache
\* the age compared against the TTL taken in seconds instead of milliseconds
IsFresh_Seconds(entry, t) == entry.present /\ t - entry.timestamp < TTL \div 1000

\* the cache never consulted
IsFresh_Never(entry, t) == FALSE

\* the timestamp never consulted
IsFresh_Forever(entry, t) == entry.present

\* cached && Date.now() - cached.timestamp < 60000
IsFresh(entry, t) == entry.present /\ t - entry.timestamp < TTL

\* -------------------------------------------------------------- adapters
\* upstream JSON bodies; price is the value the upstream quotes at this call
FinnhubBodies(price) ==
    {[c |-> x, pc |-> NumV(1)] : x \in {NumV(0), NumV(price)}}

\* quote && quote.c > 0
getFinnhubQuote(sym, body) ==
    IF body.c[1] = "num" /\ body.c[2] > 0
    THEN MkQuote(sym, body.c[2], JsSub(body.c, body.pc), "finnhub")
    ELSE Null

TwelveDataBodies(price) ==
    {[symbol |-> s, code |-> k, close |-> price, change |-> ch] :
        s \in BOOLEAN, k \in BOOLEAN, ch \in {Undefined, NumV(1), NaN}}

\* data && data.symbol && !data.code
getTwelveDataQuote(sym, body) ==
    IF body.symbol /\ ~body.code
    THEN MkQuote(sym, body.close, ParseFloatOr0(body.change), "twelve_data")
    ELSE Null

\* what one adapter call can produce: a quote, null, or a thrown error
AdapterResults(p, sym, price) ==
    {Thrown} \cup
    (IF p = "finnhub"
     THEN {getFinnhubQuote(sym, b) : b \in FinnhubBodies(price)}
     ELSE {getTwelveDataQuote(sym, b) : b \in TwelveDataBodies(price)})

\* ----------------------------------------------------------------- state
IdleCall ==
    [pc |-> "idle", id |-> 0, symbol |-> "", providers |-> <<>>, i |-> 0,
     quote |-> Null, result |-> Null, hit |-> FALSE, readEntry |-> NoEntry,
     startAt |-> 0, doneAt |-> 0, attempts |-> <<>>]

NoLast == [id |-> 0, symbol |-> "", result |-> Null, doneAt |-> 0]

InitDb == [p \in Providers |-> [is_active |-> TRUE, is_default |-> FALSE, api_key |-> NULL]]

NoOrder == [set |-> FALSE, providers |-> <<>>, db |-> InitDb]

IdleAdmin == [pc |-> "idle", provider |-> ""]

NoRow == [present |-> FALSE, last_price |-> 0]
Row(price) == [present |-> TRUE, last_price |-> price]

\* securities after the seed script: AAPL and MSFT are seeded, SHOP is not
SeededSecurities ==
    [s \in Listed |-> IF s = "AAPL" THEN Row(SeedPriceAAPL)
                      ELSE IF s = "MSFT" THEN Row(SeedPriceMSFT) ELSE NoRow]

\* the last answer of GET /api/quote/:symbol; failed: no provider gave a quote
NoResponse == [set |-> FALSE, status |-> 0, source |-> "", price |-> 0, failed |-> FALSE]
Response(status, source, price, failed) ==
    [set |-> TRUE, status |-> status, source |-> source, price |-> price, failed |-> failed]

\* RealtimeMarketData after its constructor; es is this.eventSource: "null", or
\* the readyState of the EventSource it refers to.  timers counts the pending
\* reconnect timeouts, delays lists the delays chosen since the last onopen,
\* terminal: the retry limit was hit and connect() was not called since,
\* off: disconnect() was called and connect() was not called since.
NewRealtimeMarketData ==
    [es |-> "null", connected |-> FALSE, status |-> "none", connectionRetries |-> 0,
     timers |-> 0, delays |-> <<>>, terminal |-> FALSE, off |-> FALSE,
     nSockets |-> 0, nErrors |-> 0]

\* holdings and transactions of portfolio 1 after the seed script
NoHolding == [present |-> FALSE, quantity |-> 0]
Holding(q) == [present |-> TRUE, quantity |-> q]
SeededHoldings == [s \in Listed |-> IF s = "AAPL" THEN Holding(SeedQtyAAPL) ELSE NoHolding]
SeededTransactions == <<[symbol |-> "AAPL", type |-> "buy", quantity |-> SeedQtyAAPL]>>

\* a sell request: holding is the row its SELECT returned, before the tables
\* when it arrived, n the requests sent so far
NoReply == [status |-> 0, error |-> ""]
Reply(status, error) == [status |-> status, error |-> error]
IdleSell ==
    [pc |-> "idle", symbol |-> "", quantity |-> 0, holding |-> NoHolding,
     reply |-> NoReply, before |-> <<>>]

\* a buy request: existingHolding is the row its SELECT returned
IdleBuy ==
    [pc |-> "idle", symbol |-> "", quantity |-> 0, existingHolding |-> NoHolding,
     reply |-> NoReply]

\* a RealtimeManager after construction.  ws: the socket held in connections;
\* closing: sockets closed by disconnect() whose close event is still to come;
\* reported: onError calls since the last initializeRealtime;
\* upstream: symbols the provider has been told to send on the socket in ws;
\* msg: the last message handled (its trades, the quotes handed to onQuote,
\* lastPrices before it)
NoPrice == 0
NoMessage == [trades |-> <<>>, delivered |-> <<>>, before |-> <<>>]
NewRealtimeManager ==
    [provider |-> "none", onError |-> FALSE, inits |-> 0, reported |-> 0,
     ws |-> "none", closing |-> 0, timer |-> FALSE, subTimer |-> FALSE,
     subscribedSymbols |-> {}, upstream |-> {}, lastPrices |-> [s \in Symbols |-> NoPrice],
     opened |-> 0, errors |-> 0, msg |-> NoMessage]

\* updateCallbacks and priceCache of a new RealtimeMarketData.  A callback
\* returns ("ok"), throws, or registers a further callback while it runs;
\* invoked: positions of the callbacks called for the last quote event,
\* registered: length of updateCallbacks when that event arrived
NoCallbacks ==
    [updateCallbacks |-> <<>>, priceCache |-> {}, events |-> 0,
     invoked |-> <<>>, registered |-> 0]
CallbackKinds == {"ok", "throws", "registers"}

\* one /api/realtime request before it arrives.  clock: ms since the timers
\* were set; rejected: a write was attempted after the writer was closed
NewStream ==
    [pc |-> "none", writer |-> "open", closeCalls |-> 0, intervalId |-> "none",
     lifetime |-> "none", listener |-> FALSE, aborted |-> FALSE,
     clock |-> 0, nextTick |-> 0, updateCount |-> 0, cycles |-> 0,
     frames |-> {}, rejected |-> FALSE]

\* one admin request that stores a key for p and makes p the default
AdminSaved(p) == [InitDb EXCEPT ![p].api_key = "k", ![p].is_default = TRUE]

\* provider tables the admin route leaves behind: untouched, or p saved as default
ConfiguredDbs == {InitDb} \cup {AdminSaved(p) : p \in Providers}

InitCommon ==
    /\ env \in [Providers -> {NoKey, "k"}]
    /\ cache = [s \in Symbols |-> NoEntry]
    /\ now = 0
    /\ api_usage = [id \in 1..MaxCalls |-> <<>>]
    /\ nFetch = 0
    /\ calls = [c \in Callers |-> IdleCall]
    /\ last = [c \in Callers |-> NoLast]
    /\ nCalls = 0
    /\ admin = [a \in Admins |-> IdleAdmin]
    /\ nAdmin = 0
    /\ order = NoOrder
    /\ securities = SeededSecurities
    /\ http = NoResponse
    /\ stockCache = [s \in Symbols |-> NoEntry]
    /\ rmd = NewRealtimeMarketData
    /\ holdings = SeededHoldings
    /\ transactions = SeededTransactions
    /\ sell = [t \in Sellers |-> IdleSell]
    /\ nSells = 0
    /\ buy = [b \in Buyers |-> IdleBuy]
    /\ nBuys = 0
    /\ sse = NewStream
    /\ rt = NewRealtimeManager
    /\ upd = NoCallbacks

\* storage healthy: no D1 or KV write fails
Init ==
    /\ InitCommon
    /\ db \in ConfiguredDbs
    /\ faultsLeft = 0

\* up to MaxFaults D1 or KV writes fail
InitFaults ==
    /\ InitCommon
    /\ db \in ConfiguredDbs
    /\ faultsLeft = MaxFaults

InitSelector ==
    /\ InitCommon
    /\ db = InitDb
    /\ faultsLeft = MaxFaults

\* a storage write (D1 or KV) succeeds, or fails while the fault budget lasts
StorageOutcomes == IF faultsLeft > 0 THEN BOOLEAN ELSE {TRUE}
Charge(ok) == IF ok THEN faultsLeft ELSE faultsLeft - 1

\* ------------------------------------------------------------ usage log
\* trackUsage: the insert is inside try/catch, a failed write leaves no row
trackUsage(usage, p, status, id, dbOk) ==
    IF dbOk
    THEN [usage EXCEPT ![id] = Append(@, [provider |-> p, endpoint |-> "quote",
                                            status_code |-> status])]
    ELSE usage

\* ------------------------------------------------------------- getQuote
Attempt(p, outcome) == [provider |-> p, outcome |-> outcome]

\* a loop that tries the same provider again instead of moving on
NextProvider_Retry(r) == [r EXCEPT !.pc = "fetch", !.quote = Null]

\* the for loop moves on: next provider, or `return null` after the last
NextProvider(r) ==
    IF r.i < Len(r.providers)
    THEN [r EXCEPT !.pc = "fetch", !.i = r.i + 1, !.quote = Null]
    ELSE [r EXCEPT !.pc = "done", !.quote = Null, !.result = Null, !.doneAt = now]

\* the loop body without its try/catch: the error leaves getQuote
Catch_Rethrow(r) == [r EXCEPT !.pc = "done", !.result = Thrown, !.doneAt = now]

\* an error thrown inside the try block lands in the catch block
Catch(r) == [r EXCEPT !.pc = "trackErr"]

\* cache.get and the freshness test; a fresh entry is returned at once
Begin(c, s) ==
    /\ calls[c].pc \in {"idle", "done", "responded"}
    /\ nCalls < MaxCalls
    /\ nCalls' = nCalls + 1
    /\ last' = [last EXCEPT ![c] =
                  IF calls[c].id = 0 THEN @
                  ELSE [id |-> calls[c].id, symbol |-> calls[c].symbol,
                        result |-> calls[c].result, doneAt |-> calls[c].doneAt]]
    /\ calls' = [calls EXCEPT ![c] =
                  IF IsFresh(cache[s], now)
                  THEN [IdleCall EXCEPT !.pc = "done", !.id = nCalls + 1, !.symbol = s,
                                        !.result = cache[s].data, !.hit = TRUE,
                                        !.readEntry = cache[s], !.startAt = now,
                                        !.doneAt = now]
                  ELSE [IdleCall EXCEPT !.pc = "order", !.id = nCalls + 1, !.symbol = s,
                                        !.readEntry = cache[s], !.startAt = now]]
    /\ UNCHANGED <<env, db, cache, now, api_usage, nFetch, adminVars, selectorVars, routeVars, legacyVars, faultsLeft, realtimeVars, tradeVars>>

\* getProviderOrder: the default query, then the fallback loop
Order(c) ==
    /\ calls[c].pc = "order"
    /\ \E def \in getActiveProvider(db, env) :
         LET providers == getProviderOrder(def, env) IN
         calls' = [calls EXCEPT ![c] =
                     IF providers = <<>>
                     THEN [@ EXCEPT !.pc = "done", !.result = Null, !.doneAt = now]
                     ELSE [@ EXCEPT !.pc = "fetch", !.providers = providers, !.i = 1]]
    /\ UNCHANGED <<env, db, cache, now, api_usage, nFetch, last, nCalls, adminVars, selectorVars, routeVars, legacyVars, faultsLeft, realtimeVars, tradeVars>>

\* the adapter without its `if (!apiKey) return null` guard
AdapterHasKey_NoGuard(e, p) == TRUE

\* the adapter's `if (!apiKey) return null`
AdapterHasKey(e, p) == getApiKey(e, p) # NULL

\* one adapter call inside the try block
Fetch(c) ==
    /\ calls[c].pc = "fetch"
    /\ LET r == calls[c]
           p == r.providers[r.i] IN
       IF ~AdapterHasKey(env, p)
       THEN /\ calls' = [calls EXCEPT ![c] =
                           NextProvider([r EXCEPT !.attempts = Append(@, Attempt(p, "nokey"))])]
            /\ UNCHANGED nFetch
       ELSE /\ nFetch' = nFetch + 1
            /\ \E q \in AdapterResults(p, r.symbol, nFetch + 1) :
                 calls' = [calls EXCEPT ![c] =
                    IF q.kind = "quote"
                    THEN [r EXCEPT !.pc = "trackOk", !.quote = q,
                                   !.attempts = Append(@, Attempt(p, "quote"))]
                    ELSE IF q.kind = "throw"
                    THEN Catch([r EXCEPT !.attempts = Append(@, Attempt(p, "throw"))])
                    ELSE NextProvider([r EXCEPT !.attempts = Append(@, Attempt(p, "null"))])]
    /\ UNCHANGED <<env, db, cache, now, api_usage, last, nCalls, adminVars, selectorVars, routeVars, legacyVars, faultsLeft, realtimeVars, tradeVars>>

\* trackUsage without its try/catch: a failed write throws out of the caller
Tracked_Propagates(r, dbOk, cont) == IF dbOk THEN cont ELSE Catch_Rethrow(r)

\* `await this.trackUsage(...)` resolves whether or not the write succeeded
Tracked(r, dbOk, cont) == cont

\* if (quote) { await trackUsage(provider, 'quote', ..., 200)
TrackOk(c) ==
    /\ calls[c].pc = "trackOk"
    /\ \E dbOk \in StorageOutcomes :
         /\ api_usage' = trackUsage(api_usage, calls[c].providers[calls[c].i], 200,
                                    calls[c].id, dbOk)
         /\ faultsLeft' = Charge(dbOk)
         /\ calls' = [calls EXCEPT ![c] = Tracked(@, dbOk, [@ EXCEPT !.pc = "put"])]
    /\ UNCHANGED <<env, db, cache, now, nFetch, last, nCalls, adminVars, selectorVars, routeVars, legacyVars, realtimeVars, tradeVars>>

\* a put that leaves an entry already stored for the key in place
cachePut_KeepExisting(ch, s, q, t) == IF ch[s].present THEN ch ELSE [ch EXCEPT ![s] = Entry(q, t)]

\* cache.put(`quote:${symbol}`, JSON.stringify({ data: quote, timestamp: Date.now() }))
cachePut(ch, s, q, t) == [ch EXCEPT ![s] = Entry(q, t)]

\* await cache.put(...); return quote   -- a failed put throws into the catch
Put(c) ==
    /\ calls[c].pc = "put"
    /\ \E kvOk \in StorageOutcomes :
         /\ faultsLeft' = Charge(kvOk)
         /\ IF kvOk
            THEN /\ cache' = cachePut(cache, calls[c].symbol, calls[c].quote, now)
                 /\ calls' = [calls EXCEPT ![c] =
                                [@ EXCEPT !.pc = "done", !.result = calls[c].quote, !.doneAt = now]]
            ELSE /\ cache' = cache
                 /\ calls' = [calls EXCEPT ![c] =
                                Catch([@ EXCEPT !.attempts = Append(@,
                                          Attempt(calls[c].providers[calls[c].i], "putfail"))])]
    /\ UNCHANGED <<env, db, now, api_usage, nFetch, last, nCalls, adminVars, selectorVars, routeVars, legacyVars, realtimeVars, tradeVars>>

\* catch (error) { await trackUsage(provider, 'quote', ..., 500, error.message) }
TrackErr(c) ==
    /\ calls[c].pc = "trackErr"
    /\ \E dbOk \in StorageOutcomes :
         /\ api_usage' = trackUsage(api_usage, calls[c].providers[calls[c].i], 500,
                                    calls[c].id, dbOk)
         /\ faultsLeft' = Charge(dbOk)
         /\ calls' = [calls EXCEPT ![c] = Tracked(@, dbOk, NextProvider(@))]
    /\ UNCHANGED <<env, db, cache, now, nFetch, last, nCalls, adminVars, selectorVars, routeVars, legacyVars, realtimeVars, tradeVars>>

\* ------------------------------------------- POST /api/admin/config
\* UPDATE api_providers SET api_key = ? WHERE name = ?   (bind(apiKey || null))
UpdateApiKey(d, p, apiKey) ==
    IF p \in Providers
    THEN [d EXCEPT ![p].api_key = IF apiKey = NoKey THEN NULL ELSE apiKey]
    ELSE d

\* UPDATE api_providers SET is_default = 0
ResetDefault(d) == [p \in Providers |-> [d[p] EXCEPT !.is_default = FALSE]]

\* UPDATE api_providers SET is_default = 1, is_active = 1 WHERE name = ?
SetDefault(d, p) ==
    IF p \in Providers
    THEN [d EXCEPT ![p].is_default = TRUE, ![p].is_active = TRUE]
    ELSE d

\* the request arrives; apiKey is undefined, "" or a key; the first statement runs
AdminConfig(a, p, apiKey, setDefault) ==
    /\ admin[a].pc = "idle"
    /\ nAdmin < MaxAdmin
    /\ nAdmin' = nAdmin + 1
    /\ apiKey # "undefined" \/ setDefault
    /\ \E dbOk \in StorageOutcomes :
         /\ faultsLeft' = Charge(dbOk)
         /\ IF apiKey # "undefined"
            THEN /\ db' = IF dbOk THEN UpdateApiKey(db, p, apiKey) ELSE db
                 /\ admin' = [admin EXCEPT ![a] =
                                 IF dbOk /\ setDefault
                                 THEN [pc |-> "reset", provider |-> p] ELSE IdleAdmin]
            ELSE /\ db' = IF dbOk THEN ResetDefault(db) ELSE db
                 /\ admin' = [admin EXCEPT ![a] =
                                 IF dbOk THEN [pc |-> "set", provider |-> p] ELSE IdleAdmin]
    /\ UNCHANGED <<env, cache, now, api_usage, nFetch, calls, last, nCalls, selectorVars, routeVars, legacyVars, realtimeVars, tradeVars>>

AdminReset(a) ==
    /\ admin[a].pc = "reset"
    /\ \E dbOk \in StorageOutcomes :
         /\ faultsLeft' = Charge(dbOk)
         /\ db' = IF dbOk THEN ResetDefault(db) ELSE db
         /\ admin' = [admin EXCEPT ![a] = IF dbOk THEN [@ EXCEPT !.pc = "set"] ELSE IdleAdmin]
    /\ UNCHANGED <<env, cache, now, api_usage, nFetch, calls, last, nCalls, nAdmin, selectorVars, routeVars, legacyVars, realtimeVars, tradeVars>>

AdminSet(a) ==
    /\ admin[a].pc = "set"
    /\ \E dbOk \in StorageOutcomes :
         /\ faultsLeft' = Charge(dbOk)
         /\ db' = IF dbOk THEN SetDefault(db, admin[a].provider) ELSE db
         /\ admin' = [admin EXCEPT ![a] = IdleAdmin]
    /\ UNCHANGED <<env, cache, now, api_usage, nFetch, calls, last, nCalls, nAdmin, selectorVars, routeVars, legacyVars, realtimeVars, tradeVars>>

\* ---------------------------------- GET /api/quote/:symbol (api-manager)
\* UPDATE securities SET last_price = ? ... / INSERT INTO securities ...
StorePrice(sec, s, price) == [sec EXCEPT ![s] = Row(price)]

\* what the route does with freshData once getQuote has returned
Respond(c) ==
    /\ calls[c].pc = "done"
    /\ calls' = [calls EXCEPT ![c].pc = "responded"]
    /\ LET r == calls[c]
           failed == ~r.hit /\ r.result.kind # "quote" IN
       IF r.result.kind = "quote"
       THEN \E dbOk \in StorageOutcomes :
              /\ faultsLeft' = Charge(dbOk)
              /\ securities' = IF dbOk THEN StorePrice(securities, r.symbol, r.result.price)
                                ELSE securities
              /\ http' = IF dbOk
                         THEN Response(200, IF r.hit THEN "cache" ELSE "live",
                                       r.result.price, failed)
                         ELSE Response(500, "error", 0, failed)
       ELSE /\ http' = Response(IF r.result.kind = "null" THEN 404 ELSE 500, "error", 0, failed)
            /\ UNCHANGED <<securities, faultsLeft>>
    /\ UNCHANGED <<env, db, cache, now, api_usage, nFetch, last, nCalls, adminVars,
                   selectorVars, legacyVars, realtimeVars, tradeVars>>

\* ------------------------------- GET /api/quote/:symbol (fetchStockData)
\* the demoData row of a symbol, made into stockData
DemoQuote(s) == MkQuote(s, DemoPriceAAPL, NumV(245), "demo")

\* after the try block: demo data when the symbol has a row, else null
DemoFallback(s, failed, f) ==
    [data |-> IF s \in DemoSymbols THEN DemoQuote(s) ELSE Null,
     source |-> IF s \in DemoSymbols THEN "demo" ELSE "none",
     failed |-> failed, cache |-> stockCache, fetched |-> TRUE, left |-> f]

\* every way one call of fetchStockData can end
fetchStockData(s) ==
    IF IsFresh(stockCache[s], now)
    THEN {[data |-> stockCache[s].data, source |-> "cache", failed |-> FALSE,
           cache |-> stockCache, fetched |-> FALSE, left |-> faultsLeft]}
    ELSE UNION {
        IF out.kind = "quote"
        THEN {IF kvOk
              THEN [data |-> out, source |-> "live", failed |-> FALSE,
                    cache |-> [stockCache EXCEPT ![s] = Entry(out, now)],
                    fetched |-> TRUE, left |-> faultsLeft]
              ELSE DemoFallback(s, FALSE, faultsLeft - 1) : kvOk \in StorageOutcomes}
        ELSE {DemoFallback(s, TRUE, faultsLeft)} :
        out \in AdapterResults("twelve_data", s, nFetch + 1)}

\* the route: dbStock, fetchStockData, then the three answers
LegacyQuote(s) ==
    /\ nCalls < MaxCalls
    /\ nCalls' = nCalls + 1
    /\ \E f \in fetchStockData(s) :
        LET dbStock == securities[s] IN
        /\ stockCache' = f.cache
        /\ nFetch' = IF f.fetched THEN nFetch + 1 ELSE nFetch
        /\ IF f.data.kind = "quote"
           THEN \E dbOk \in (IF f.left > 0 THEN BOOLEAN ELSE {TRUE}) :
                  /\ faultsLeft' = IF dbOk THEN f.left ELSE f.left - 1
                  /\ securities' = IF dbOk THEN StorePrice(securities, s, f.data.price)
                                    ELSE securities
                  /\ http' = IF dbOk THEN Response(200, f.source, f.data.price, f.failed)
                             ELSE Response(500, "error", 0, f.failed)
           ELSE /\ faultsLeft' = f.left
                /\ securities' = securities
                /\ http' = IF dbStock.present
                           THEN Response(200, "db", dbStock.last_price, f.failed)
                           ELSE Response(404, "error", 0, f.failed)
    /\ UNCHANGED <<env, db, cache, now, api_usage, calls, last, adminVars, selectorVars, realtimeVars, tradeVars>>

\* ------------------------------------------------- RealtimeMarketData
\* Math.max in place of Math.min
BackoffDelay_Max(retries) ==
    IF BackoffBaseMs * 2 ^ retries > BackoffCeilingMs
    THEN BackoffBaseMs * 2 ^ retries ELSE BackoffCeilingMs

\* Math.min(1000 * Math.pow(2, this.connectionRetries), 30000)
BackoffDelay(retries) ==
    IF BackoffBaseMs * 2 ^ retries < BackoffCeilingMs
    THEN BackoffBaseMs * 2 ^ retries ELSE BackoffCeilingMs

\* disconnect(): only when an EventSource is held
rmdDisconnect(r) ==
    IF r.es # "null"
    THEN [r EXCEPT !.es = "null", !.connected = FALSE, !.status = "disconnected"]
    ELSE r

\* connect(): drop the old EventSource, then `new EventSource` returns or throws
rmdConnect(r, ctorOk) ==
    LET d == rmdDisconnect(r) IN
    IF ctorOk
    THEN [d EXCEPT !.status = "connecting", !.es = "connecting", !.nSockets = @ + 1]
    ELSE [d EXCEPT !.status = "error", !.nSockets = @ + 1]

\* the page (or a caller) calls connect()
ClientConnect ==
    /\ rmd.nSockets < MaxSockets
    /\ \E ctorOk \in BOOLEAN :
         rmd' = [rmdConnect(rmd, ctorOk) EXCEPT !.terminal = FALSE, !.off = FALSE]
    /\ UNCHANGED notClientVars

\* a caller calls disconnect()
ClientDisconnect ==
    /\ rmd' = [rmdDisconnect(rmd) EXCEPT !.off = TRUE]
    /\ UNCHANGED notClientVars

\* eventSource.onopen
ClientOnOpen ==
    /\ rmd.es = "connecting"
    /\ rmd' = [rmd EXCEPT !.es = "open", !.connected = TRUE, !.connectionRetries = 0,
                          !.status = "connected", !.delays = <<>>]
    /\ UNCHANGED notClientVars

\* eventSource.onerror; the browser keeps the EventSource reconnecting
\* (readyState CONNECTING) or has failed it for good (CLOSED)
ClientOnError ==
    /\ rmd.es \in {"connecting", "open"}
    /\ rmd.nErrors < MaxErrors
    /\ \E readyState \in {"connecting", "closed"} :
         LET r == [rmd EXCEPT !.es = readyState, !.connected = FALSE,
                              !.nErrors = @ + 1] IN
         rmd' = IF r.connectionRetries < MaxRetries
                THEN [r EXCEPT !.status = "error",
                               !.delays = Append(@, BackoffDelay(r.connectionRetries)),
                               !.connectionRetries = @ + 1,
                               !.timers = @ + 1]
                ELSE [r EXCEPT !.status = "disconnected", !.terminal = TRUE]
    /\ UNCHANGED notClientVars

\* a reconnect timeout fires: () => this.connect()
ClientTimer ==
    /\ rmd.timers > 0
    /\ rmd.nSockets < MaxSockets
    /\ \E ctorOk \in BOOLEAN :
         rmd' = [rmdConnect(rmd, ctorOk) EXCEPT !.timers = @ - 1]
    /\ UNCHANGED notClientVars

\* Date.now() moves on
\* --------------------------------------------------------- RealtimeManager
\* prices of the trades a provider sends
\* config.symbols of initializeRealtime; SHOP is added later through subscribe()
ConfigSymbols == {"AAPL"}
TradePrices == {100, 101}
Trades == [s : Symbols, p : TradePrices]
\* messages: Finnhub sends one or two trades in data.data, Twelve Data one price
Batches(p) ==
    [1..1 -> Trades] \cup (IF p = "finnhub" THEN [1..2 -> Trades] ELSE {})

Digit == <<"0", "1", "2", "3", "4", "5", "6", "7", "8", "9">>
RECURSIVE NatToString(_)
NatToString(n) ==
    IF n < 10 THEN Digit[n + 1] ELSE NatToString(n \div 10) \o Digit[(n % 10) + 1]

Abs(x) == IF x < 0 THEN -x ELSE x

\* ((change / lastPrice) * 100).toFixed(2) + '%': rounded to the nearest hundredth
PercentToFixed2(change, lastPrice) ==
    LET h == (2 * 10000 * Abs(change) + lastPrice) \div (2 * lastPrice)
    IN (IF change < 0 THEN "-" ELSE "") \o NatToString(h \div 100) \o "."
       \o Digit[((h % 100) \div 10) + 1] \o Digit[(h % 10) + 1] \o "%"

\* the quote handed to onQuote for one trade
tradeQuote(lastPrices, t) ==
    LET lastPrice == IF lastPrices[t.s] # NoPrice THEN lastPrices[t.s] ELSE t.p
        change == t.p - lastPrice
    IN [symbol |-> t.s, price |-> t.p, change |-> change,
        changePercent |-> IF lastPrice # 0 THEN PercentToFixed2(change, lastPrice)
                          ELSE "0%"]

\* data.data.forEach(trade => ...): onQuote runs before lastPrices.set; when the
\* callback of trade number throwAt throws, the catch of onmessage ends the loop
RECURSIVE handleTrades(_, _, _, _)
handleTrades(st, trades, k, throwAt) ==
    IF k > Len(trades) THEN st
    ELSE LET t == trades[k]
             told == [st EXCEPT !.msg.delivered = Append(@, tradeQuote(st.lastPrices, t))]
         IN IF k = throwAt THEN told
            ELSE handleTrades([told EXCEPT !.lastPrices[t.s] = t.p], trades, k + 1, throwAt)

\* const apiKey = this.env.X_API_KEY; if (!apiKey) ...
hasApiKey_Always(e, p) == TRUE
hasApiKey(e, p) == getApiKey(e, p) # NULL

\* onError?.(...)
reportError(st) ==
    IF st.onError THEN [st EXCEPT !.errors = @ + 1, !.reported = @ + 1] ELSE st

\* connectFinnhub / connectTwelveData
connectProvider(st, e, ctorOk) ==
    IF ~hasApiKey(e, st.provider) THEN reportError(st)
    ELSE IF ctorOk THEN [st EXCEPT !.ws = "connecting", !.opened = @ + 1, !.upstream = {}]
    ELSE reportError(st)

\* initializeRealtime(config) on a manager that holds no socket and no timer
InitializeRealtime ==
    /\ rt.inits < MaxInits
    /\ rt.ws = "none" /\ ~rt.timer /\ rt.closing = 0
    /\ rt.opened < MaxSockets /\ rt.errors < MaxErrors
    /\ \E p \in Providers, cb \in BOOLEAN, ctorOk \in BOOLEAN :
         rt' = connectProvider([rt EXCEPT !.provider = p, !.onError = cb,
                                          !.inits = @ + 1, !.reported = 0], env, ctorOk)
    /\ UNCHANGED notManagerVars

\* ws.onopen: Finnhub subscribes at once, Twelve Data one second later
RtOnOpen ==
    /\ rt.ws = "connecting"
    /\ rt' = IF rt.provider = "finnhub"
             THEN [rt EXCEPT !.ws = "open", !.upstream = @ \cup ConfigSymbols,
                             !.subscribedSymbols = @ \cup ConfigSymbols]
             ELSE [rt EXCEPT !.ws = "open", !.subTimer = TRUE]
    /\ UNCHANGED notManagerVars

\* the setTimeout of the Twelve Data onopen; ws.send throws on a closed socket
RtSubscribeTimer ==
    /\ rt.subTimer
    /\ rt' = IF rt.ws = "open"
             THEN [rt EXCEPT !.subTimer = FALSE, !.upstream = @ \cup ConfigSymbols,
                             !.subscribedSymbols = @ \cup ConfigSymbols]
             ELSE [rt EXCEPT !.subTimer = FALSE]
    /\ UNCHANGED notManagerVars

\* ws.onmessage with trades: a batch from Finnhub, one price from Twelve Data
RtOnMessage ==
    /\ rt.ws = "open"
    /\ \E trades \in Batches(rt.provider) :
         \E throwAt \in 0..Len(trades) :
           rt' = handleTrades([rt EXCEPT !.msg = [trades |-> trades, delivered |-> <<>>,
                                                before |-> rt.lastPrices]],
                              trades, 1, throwAt)
    /\ UNCHANGED notManagerVars

\* subscribe([symbol]): sent on an open socket only, recorded in any case
RtSubscribe ==
    /\ rt.inits > 0
    /\ \E s \in Symbols :
         /\ s \notin rt.subscribedSymbols
         /\ rt' = [rt EXCEPT !.subscribedSymbols = @ \cup {s},
                             !.upstream = IF rt.ws = "open" THEN @ \cup {s} ELSE @]
    /\ UNCHANGED notManagerVars

\* unsubscribe([symbol])
RtUnsubscribe ==
    /\ \E s \in Symbols :
         /\ s \in rt.subscribedSymbols
         /\ rt' = [rt EXCEPT !.subscribedSymbols = @ \ {s},
                             !.upstream = IF rt.ws = "open" THEN @ \ {s} ELSE @]
    /\ UNCHANGED notManagerVars

\* ws.onerror
RtOnError ==
    /\ rt.ws \in {"connecting", "open"}
    /\ rt.onError
    /\ rt.errors < MaxErrors
    /\ rt' = reportError(rt)
    /\ UNCHANGED notManagerVars

\* scheduleReconnect: the earlier timer is cleared, a new one is set
scheduleReconnect(st) == [st EXCEPT !.timer = TRUE]

\* ws.onclose of the socket held in connections
RtOnClose ==
    /\ rt.ws \in {"connecting", "open"}
    /\ rt' = scheduleReconnect([rt EXCEPT !.ws = "closed", !.upstream = {}])
    /\ UNCHANGED notManagerVars

\* ws.onclose of a socket that disconnect() closed
RtOnCloseAfterDisconnect ==
    /\ rt.closing > 0
    /\ rt' = scheduleReconnect([rt EXCEPT !.closing = @ - 1])
    /\ UNCHANGED notManagerVars

\* the reconnect timer fires: connectFinnhub / connectTwelveData again
RtReconnectTimer ==
    /\ rt.timer
    /\ rt.opened < MaxSockets /\ rt.errors < MaxErrors
    /\ \E ctorOk \in BOOLEAN :
         rt' = connectProvider([rt EXCEPT !.timer = FALSE], env, ctorOk)
    /\ UNCHANGED notManagerVars

\* disconnect(): close every socket, clear the maps
RtDisconnect ==
    /\ rt.inits > 0
    /\ rt' = [rt EXCEPT !.closing = IF rt.ws \in {"connecting", "open"} THEN @ + 1 ELSE @,
                        !.ws = "none", !.timer = FALSE,
                        !.subscribedSymbols = {}, !.upstream = {},
                        !.lastPrices = [s \in Symbols |-> NoPrice],
                        !.msg = NoMessage]
    /\ rt' # rt
    /\ UNCHANGED notManagerVars

\* ------------------------------------- RealtimeMarketData: quote callbacks
\* onQuoteUpdate(callback)
onQuoteUpdate(u, kind) ==
    IF Len(u.updateCallbacks) < MaxCallbacks
    THEN [u EXCEPT !.updateCallbacks = Append(@, kind)]
    ELSE u

\* try { callback(symbol, quote) } catch (error) { console.error(...) }:
\* the position forEach visits next
afterCallback_Rethrow(kind, k, n) == IF kind = "throws" THEN n + 1 ELSE k + 1
afterCallback(kind, k, n) == k + 1

\* this.updateCallbacks.forEach(...): visits the n elements present at the start
RECURSIVE forEachCallback(_, _, _)
forEachCallback(u, k, n) ==
    IF k > n THEN u
    ELSE LET kind == u.updateCallbacks[k]
             ran == IF kind = "registers" THEN onQuoteUpdate(u, "ok") ELSE u
         IN forEachCallback([ran EXCEPT !.invoked = Append(@, k)],
                            afterCallback(kind, k, n), n)

\* the page registers a callback
OnQuoteUpdate ==
    /\ Len(upd.updateCallbacks) < MaxCallbacks
    /\ \E kind \in CallbackKinds : upd' = onQuoteUpdate(upd, kind)
    /\ UNCHANGED notCallbackVars

\* updateQuote(quote): cache the quote, then notify all callbacks
UpdateQuote ==
    /\ upd.events < MaxEvents
    /\ \E s \in Symbols :
         upd' = forEachCallback([upd EXCEPT !.priceCache = @ \cup {s},
                                            !.events = @ + 1,
                                            !.invoked = <<>>,
                                            !.registered = Len(upd.updateCallbacks)],
                                1, Len(upd.updateCallbacks))
    /\ UNCHANGED notCallbackVars

\* ------------------------------------------- POST /api/portfolio/:id/sell
\* if (!holding || holding.quantity < quantity)
insufficient_OnlyMissing(h, quantity) == ~h.present
insufficient(h, quantity) == ~h.present \/ h.quantity < quantity

\* catch (error) { return c.json({ error: 'Transaction failed' }, 500) }
sellCatch(r) == [r EXCEPT !.pc = "done", !.reply = Reply(500, "Transaction failed")]

\* the request arrives with its body
SellBegin(t) ==
    /\ sell[t].pc \in {"idle", "done"}
    /\ nSells < MaxSells
    /\ \E s \in Listed, q \in SellQuantities :
         sell' = [sell EXCEPT ![t] = [IdleSell EXCEPT !.pc = "security", !.symbol = s,
                                        !.quantity = q,
                                        !.before = <<holdings, transactions>>]]
    /\ nSells' = nSells + 1
    /\ UNCHANGED <<holdings, transactions, faultsLeft, buyVars, notTradeVars>>

\* SELECT * FROM securities WHERE symbol = ?
SellSecurity(t) ==
    /\ sell[t].pc = "security"
    /\ \E dbOk \in StorageOutcomes :
         /\ sell' = [sell EXCEPT ![t] =
                IF ~dbOk THEN sellCatch(@)
                ELSE IF ~securities[@.symbol].present
                THEN [@ EXCEPT !.pc = "done", !.reply = Reply(404, "Security not found")]
                ELSE [@ EXCEPT !.pc = "holding"]]
         /\ faultsLeft' = Charge(dbOk)
    /\ UNCHANGED <<holdings, transactions, nSells, buyVars, notTradeVars>>

\* SELECT * FROM holdings WHERE portfolio_id = ? AND security_id = ?
SellHolding(t) ==
    /\ sell[t].pc = "holding"
    /\ \E dbOk \in StorageOutcomes :
         /\ sell' = [sell EXCEPT ![t] =
                LET holding == holdings[sell[t].symbol]
                IN IF ~dbOk THEN sellCatch(@)
                   ELSE IF insufficient(holding, sell[t].quantity)
                   THEN [@ EXCEPT !.pc = "done", !.holding = holding,
                                  !.reply = Reply(400, "Insufficient holdings")]
                   ELSE [@ EXCEPT !.pc = "write", !.holding = holding]]
         /\ faultsLeft' = Charge(dbOk)
    /\ UNCHANGED <<holdings, transactions, nSells, buyVars, notTradeVars>>

\* DELETE FROM holdings / UPDATE holdings SET quantity = holding.quantity - quantity
SellWrite(t) ==
    /\ sell[t].pc = "write"
    /\ \E dbOk \in StorageOutcomes :
         /\ sell' = [sell EXCEPT ![t] = IF dbOk THEN [@ EXCEPT !.pc = "record"]
                                        ELSE sellCatch(@)]
         /\ holdings' =
              IF ~dbOk THEN holdings
              ELSE IF sell[t].holding.quantity = sell[t].quantity
              THEN [holdings EXCEPT ![sell[t].symbol] = NoHolding]
              ELSE IF holdings[sell[t].symbol].present
              THEN [holdings EXCEPT ![sell[t].symbol] =
                        Holding(sell[t].holding.quantity - sell[t].quantity)]
              ELSE holdings
         /\ faultsLeft' = Charge(dbOk)
    /\ UNCHANGED <<transactions, nSells, buyVars, notTradeVars>>

\* INSERT INTO transactions (..., 'sell', ...), then the success reply
SellRecord(t) ==
    /\ sell[t].pc = "record"
    /\ \E dbOk \in StorageOutcomes :
         /\ sell' = [sell EXCEPT ![t] =
                IF dbOk THEN [@ EXCEPT !.pc = "done", !.reply = Reply(200, "")]
                ELSE sellCatch(@)]
         /\ transactions' =
              IF dbOk
              THEN Append(transactions, [symbol |-> sell[t].symbol, type |-> "sell",
                                         quantity |-> sell[t].quantity])
              ELSE transactions
         /\ faultsLeft' = Charge(dbOk)
    /\ UNCHANGED <<holdings, nSells, buyVars, notTradeVars>>

\* -------------------------------------------- POST /api/portfolio/:id/buy
\* catch (error) { return c.json({ error: 'Transaction failed' }, 500) }
buyCatch(r) == [r EXCEPT !.pc = "done", !.reply = Reply(500, "Transaction failed")]

\* the request arrives with its body
BuyBegin(b) ==
    /\ buy[b].pc \in {"idle", "done"}
    /\ nBuys < MaxBuys
    /\ \E s \in {x \in Listed : securities[x].present}, q \in BuyQuantities :
         buy' = [buy EXCEPT ![b] = [IdleBuy EXCEPT !.pc = "security", !.symbol = s,
                                                    !.quantity = q]]
    /\ nBuys' = nBuys + 1
    /\ UNCHANGED <<holdings, transactions, faultsLeft, sellVars, notTradeVars>>

\* SELECT * FROM securities WHERE symbol = ?   (the row exists)
BuySecurity(b) ==
    /\ buy[b].pc = "security"
    /\ \E dbOk \in StorageOutcomes :
         /\ buy' = [buy EXCEPT ![b] = IF dbOk THEN [@ EXCEPT !.pc = "holding"]
                                      ELSE buyCatch(@)]
         /\ faultsLeft' = Charge(dbOk)
    /\ UNCHANGED <<holdings, transactions, nBuys, sellVars, notTradeVars>>

\* SELECT * FROM holdings WHERE portfolio_id = ? AND security_id = ?
BuyHolding(b) ==
    /\ buy[b].pc = "holding"
    /\ \E dbOk \in StorageOutcomes :
         /\ buy' = [buy EXCEPT ![b] =
                IF dbOk THEN [@ EXCEPT !.pc = "write",
                                       !.existingHolding = holdings[buy[b].symbol]]
                ELSE buyCatch(@)]
         /\ faultsLeft' = Charge(dbOk)
    /\ UNCHANGED <<holdings, transactions, nBuys, sellVars, notTradeVars>>

\* UPDATE holdings SET quantity = existingHolding.quantity + quantity, or
\* INSERT INTO holdings; the INSERT fails on UNIQUE(portfolio_id, security_id)
BuyWrite(b) ==
    /\ buy[b].pc = "write"
    /\ LET r == buy[b] IN
       \E dbOk \in StorageOutcomes :
         LET unique == r.existingHolding.present \/ ~holdings[r.symbol].present
             ok == dbOk /\ unique
         IN /\ buy' = [buy EXCEPT ![b] = IF ok THEN [@ EXCEPT !.pc = "record"]
                                         ELSE buyCatch(@)]
            /\ holdings' =
                 IF ~ok THEN holdings
                 ELSE IF ~r.existingHolding.present
                 THEN [holdings EXCEPT ![r.symbol] = Holding(r.quantity)]
                 ELSE IF holdings[r.symbol].present
                 THEN [holdings EXCEPT ![r.symbol] =
                           Holding(r.existingHolding.quantity + r.quantity)]
                 ELSE holdings
            /\ faultsLeft' = Charge(dbOk)
    /\ UNCHANGED <<transactions, nBuys, sellVars, notTradeVars>>

\* INSERT INTO transactions (..., 'buy', ...), then the success reply
BuyRecord(b) ==
    /\ buy[b].pc = "record"
    /\ \E dbOk \in StorageOutcomes :
         /\ buy' = [buy EXCEPT ![b] =
                IF dbOk THEN [@ EXCEPT !.pc = "done", !.reply = Reply(200, "")]
                ELSE buyCatch(@)]
         /\ transactions' =
              IF dbOk
              THEN Append(transactions, [symbol |-> buy[b].symbol, type |-> "buy",
                                         quantity |-> buy[b].quantity])
              ELSE transactions
         /\ faultsLeft' = Charge(dbOk)
    /\ UNCHANGED <<holdings, nBuys, sellVars, notTradeVars>>

\* ------------------------------------------------------ GET /api/realtime
\* setInterval(..., 3000), setTimeout(..., 300000), updateCount % 10
IntervalMs == 3000
LifetimeMs == 300000
HeartbeatEvery == 10

\* SELECT DISTINCT s.symbol FROM securities s JOIN holdings h ...
TrackedSymbols == {s \in Listed : holdings[s].present}

\* what the handler writes: `data: {"type": ...}` with a JSON envelope, or the
\* comment line `:heartbeat`
JsonFrame(type) == [envelope |-> TRUE, type |-> type]
CommentFrame(text) == [envelope |-> FALSE, type |-> text]

\* await writer.write(...): the frame is enqueued, or the write is rejected
\* because the writer is closed
write(st, frame) ==
    IF st.writer = "open"
    THEN [st EXCEPT !.frames = @ \cup {frame}]
    ELSE [st EXCEPT !.rejected = TRUE]

\* writer.close()
close(st) == [st EXCEPT !.writer = "closed", !.closeCalls = @ + 1]

\* catch (error) { try { write error frame } catch {} ; writer.close() }
streamCatch(st) == [close(write(st, JsonFrame("error"))) EXCEPT !.pc = "ended"]

\* the request arrives: initial frame, then await env.DB...all()
SseOpen ==
    /\ sse.pc = "none"
    /\ \E ok \in BOOLEAN :
         sse' = IF ok
                THEN [write(sse, JsonFrame("connected")) EXCEPT !.pc = "query"]
                ELSE streamCatch(sse)
    /\ UNCHANGED notStreamVars

\* the query returns: info frame when nothing is held, then the interval,
\* the lifetime timeout and the abort listener are set; or the query throws
SseStart ==
    /\ sse.pc = "query"
    /\ \E ok \in BOOLEAN :
         sse' = IF ok
                THEN [(IF TrackedSymbols = {} THEN write(sse, JsonFrame("info")) ELSE sse)
                        EXCEPT !.pc = "streaming", !.intervalId = "active",
                               !.lifetime = "pending", !.listener = TRUE,
                               !.clock = 0, !.nextTick = IntervalMs]
                ELSE streamCatch(sse)
    /\ UNCHANGED notStreamVars

\* the interval callback starts: updateCount++
SseTick ==
    /\ sse.intervalId = "active"
    /\ sse.clock = sse.nextTick
    /\ sse.cycles < MaxCycles
    /\ sse' = [sse EXCEPT !.updateCount = @ + 1, !.cycles = @ + 1,
                          !.nextTick = @ + IntervalMs]
    /\ UNCHANGED notStreamVars

\* one symbol of a cycle in progress: getQuote, then the quote frame if any
SseCycleQuote ==
    /\ sse.cycles > 0
    /\ TrackedSymbols # {}
    /\ \E got \in BOOLEAN :
         sse' = IF got THEN write(sse, JsonFrame("quote")) ELSE sse
    /\ sse' # sse
    /\ UNCHANGED notStreamVars

\* a cycle in progress ends: heartbeat every 10 updates
SseCycleEnd ==
    /\ sse.cycles > 0
    /\ sse' = [(IF sse.updateCount % HeartbeatEvery = 0
                THEN write(sse, CommentFrame("heartbeat")) ELSE sse)
                 EXCEPT !.cycles = @ - 1]
    /\ UNCHANGED notStreamVars

\* setTimeout(() => { clearInterval(intervalId); writer.close() }, 300000)
lifetimeTimeout_KeepsOpen(st) == [st EXCEPT !.lifetime = "fired"]
lifetimeTimeout(st) ==
    [close(st) EXCEPT !.intervalId = "cleared", !.lifetime = "fired"]

SseLifetime ==
    /\ sse.lifetime = "pending"
    /\ sse.clock = LifetimeMs
    /\ sse' = lifetimeTimeout(sse)
    /\ UNCHANGED notStreamVars

\* the client goes away: the listener, once registered, clears the interval
\* and closes the writer
SseAbort ==
    /\ sse.pc \in {"query", "streaming"}
    /\ sse.writer = "open"
    /\ ~sse.aborted
    /\ sse' = IF sse.listener
              THEN [close(sse) EXCEPT !.intervalId = "cleared", !.aborted = TRUE]
              ELSE [sse EXCEPT !.aborted = TRUE]
    /\ UNCHANGED notStreamVars

\* timers of the stream that are pending, by the time they are due
DueTimes(st) ==
    (IF st.intervalId = "active" THEN {st.nextTick} ELSE {})
    \cup (IF st.lifetime = "pending" THEN {LifetimeMs} ELSE {})

Earliest(S) == CHOOSE t \in S : \A u \in S : t <= u

\* time passes up to the next due timer; a due timer runs before time goes on
SseAdvance ==
    /\ sse.pc = "streaming"
    /\ IF DueTimes(sse) # {}
       THEN /\ Earliest(DueTimes(sse)) > sse.clock
            /\ sse' = [sse EXCEPT !.clock = Earliest(DueTimes(sse))]
       ELSE /\ sse.clock < LifetimeMs + IntervalMs
            /\ sse' = [sse EXCEPT !.clock = @ + IntervalMs]
    /\ UNCHANGED notStreamVars

Advance ==
    /\ now < MaxTicks * Tick
    /\ now' = now + Tick
    /\ UNCHANGED <<env, db, cache, api_usage, nFetch, calls, last, nCalls, adminVars, selectorVars, routeVars, legacyVars, faultsLeft, realtimeVars, tradeVars>>

\* --------------------------------------------------------- searchStocks
\* const providers = await this.getProviderOrder()   (first statement)
SearchStocksOrder ==
    /\ \E def \in getActiveProvider(db, env) :
         order' = [set |-> TRUE, providers |-> getProviderOrder(def, env), db |-> db]
    /\ UNCHANGED <<env, db, cache, now, api_usage, nFetch, calls, last, nCalls, adminVars,
                   routeVars, legacyVars, faultsLeft, realtimeVars, tradeVars>>

\* ------------------------------------------------------- specifications
\* getQuote invocations of one request stream
NextFaults ==
    \/ \E c \in SeqCallers, s \in Symbols : Begin(c, s)
    \/ \E c \in SeqCallers : Order(c)
    \/ \E c \in SeqCallers : Fetch(c)
    \/ \E c \in SeqCallers : TrackOk(c)
    \/ \E c \in SeqCallers : Put(c)
    \/ \E c \in SeqCallers : TrackErr(c)

\* the same with the clock
Next ==
    \/ NextFaults
    \/ Advance

Spec == Init /\ [][Next]_vars

\* getQuote invocations that overlap: every await is a point where the other runs
InitRace ==
    /\ InitCommon
    /\ env = [p \in Providers |-> IF p = "finnhub" THEN "k" ELSE NoKey]
    /\ db = InitDb
    /\ faultsLeft = 0

NextRace ==
    \/ \E c \in Callers, s \in Symbols : Begin(c, s)
    \/ \E c \in Callers : Order(c)
    \/ \E c \in Callers : Fetch(c)
    \/ \E c \in Callers : TrackOk(c)
    \/ \E c \in Callers : Put(c)
    \/ \E c \in Callers : TrackErr(c)

SpecRace == InitRace /\ [][NextRace]_vars

\* sell requests that overlap: every await is a point where the other runs
NextSellRace ==
    \E t \in Sellers :
        \/ SellBegin(t)
        \/ SellSecurity(t)
        \/ SellHolding(t)
        \/ SellWrite(t)
        \/ SellRecord(t)

SpecSellRace == InitRace /\ [][NextSellRace]_vars

\* the admin route against the selector
NextSelector ==
    \/ \E a \in Admins, p \in AdminNames, k \in {"undefined", NoKey, "k"}, sd \in BOOLEAN :
          AdminConfig(a, p, k, sd)
    \/ \E a \in Admins : AdminReset(a)
    \/ \E a \in Admins : AdminSet(a)
    \/ SearchStocksOrder

SpecSelector == InitSelector /\ [][NextSelector]_vars

\* getQuote over storage whose writes can fail, the clock standing still
SpecFaults == InitFaults /\ [][NextFaults]_vars

\* the quote route built on getQuote, with both keys deployed
InitRoute ==
    /\ InitCommon
    /\ db = InitDb
    /\ env = [p \in Providers |-> "k"]
    /\ faultsLeft = MaxFaults

NextRoute ==
    \/ Next
    \/ \E c \in SeqCallers : Respond(c)

SpecRoute == InitRoute /\ [][NextRoute]_vars

\* the browser's RealtimeMarketData and its EventSource
NextClient ==
    \/ ClientConnect
    \/ ClientDisconnect
    \/ ClientOnOpen
    \/ ClientOnError
    \/ ClientTimer

SpecClient == InitSelector /\ [][NextClient]_vars

\* one /api/realtime stream
NextSse ==
    \/ SseOpen
    \/ SseStart
    \/ SseTick
    \/ SseCycleQuote
    \/ SseCycleEnd
    \/ SseLifetime
    \/ SseAbort
    \/ SseAdvance

SpecSse == InitRoute /\ [][NextSse]_vars

\* connections of a RealtimeManager
NextManager ==
    \/ InitializeRealtime
    \/ RtOnOpen
    \/ RtSubscribeTimer
    \/ RtSubscribe
    \/ RtUnsubscribe
    \/ RtOnError
    \/ RtOnClose
    \/ RtOnCloseAfterDisconnect
    \/ RtReconnectTimer
    \/ RtDisconnect

SpecManager == InitSelector /\ [][NextManager]_vars

\* trades arriving on the socket of a RealtimeManager
NextFeed ==
    \/ InitializeRealtime
    \/ RtOnOpen
    \/ RtOnMessage
    \/ RtDisconnect

SpecFeed == InitSelector /\ [][NextFeed]_vars

\* quote events of a RealtimeMarketData and the callbacks registered with it
NextCallbacks ==
    \/ OnQuoteUpdate
    \/ UpdateQuote

SpecCallbacks == InitSelector /\ [][NextCallbacks]_vars

\* no buy or sell request is being handled
Quiet ==
    /\ \A t \in Sellers : sell[t].pc \in {"idle", "done"}
    /\ \A b \in Buyers : buy[b].pc \in {"idle", "done"}

\* sell requests of one client, one after the other
NextTrade ==
    \E t \in SeqSellers :
        \/ SellBegin(t)
        \/ SellSecurity(t)
        \/ SellHolding(t)
        \/ SellWrite(t)
        \/ SellRecord(t)

\* buy and sell requests of one client, one after the other
NextLedger ==
    \/ \E t \in SeqSellers :
          \/ Quiet /\ SellBegin(t)
          \/ SellSecurity(t)
          \/ SellHolding(t)
          \/ SellWrite(t)
          \/ SellRecord(t)
    \/ \E b \in Buyers :
          \/ Quiet /\ BuyBegin(b)
          \/ BuySecurity(b)
          \/ BuyHolding(b)
          \/ BuyWrite(b)
          \/ BuyRecord(b)

SpecTrade == InitSelector /\ [][NextTrade]_vars

SpecLedger == InitSelector /\ [][NextLedger]_vars

\* the quote route built on fetchStockData
NextLegacy ==
    \/ \E s \in Symbols : LegacyQuote(s)
    \/ Advance

SpecLegacy == InitSelector /\ [][NextLegacy]_vars

\* ================================================================ claims
\* getQuote has returned to its caller
Returned(c) == calls[c].pc \in {"done", "responded"}

\* attempts that went to the network
IsUpstream(a) == a.outcome \in {"throw", "null", "quote"}
Upstream(r) == {k \in 1..Len(r.attempts) : IsUpstream(r.attempts[k])}
\* attempts that gave no quote
Failed(a) == a.outcome \in {"throw", "null", "nokey"}
Keyed == {p \in Providers : env[p] # NoKey}

\* C1: a call that reads a cache entry younger than the TTL (60 s) returns
\* exactly that entry's quote in the same step, with no adapter call and no
\* usage record of its own.
C1_FreshEntryServed ==
    \A c \in Callers :
        (/\ calls[c].id > 0
         /\ calls[c].readEntry.present
         /\ calls[c].startAt - calls[c].readEntry.timestamp < TTL)
        => /\ Returned(c)
           /\ calls[c].result = calls[c].readEntry.data
           /\ calls[c].attempts = <<>>
           /\ api_usage[calls[c].id] = <<>>

\* a fresh entry of positive age was served
C1_Witness ==
    \E c \in Callers :
        /\ calls[c].hit /\ Returned(c)
        /\ calls[c].result.kind = "quote"
        /\ calls[c].startAt > calls[c].readEntry.timestamp

\* C2 (as claimed): with no fresh entry and healthy storage, when the first
\* provider of the order fails upstream and the second returns a quote, the
\* call returns the second provider's quote and has appended exactly two usage
\* records, a 500 for the first provider followed by a 200 for the second.
C2_FailoverTwoRecords ==
    \A c \in Callers :
        (/\ Returned(c) /\ ~calls[c].hit
         /\ Len(calls[c].providers) = 2 /\ Len(calls[c].attempts) = 2
         /\ calls[c].attempts[1].outcome \in {"throw", "null"}
         /\ calls[c].attempts[2].outcome = "quote")
        => /\ calls[c].result.kind = "quote"
           /\ calls[c].result.src = calls[c].providers[2]
           /\ api_usage[calls[c].id] =
                <<[provider |-> calls[c].providers[1], endpoint |-> "quote", status_code |-> 500],
                  [provider |-> calls[c].providers[2], endpoint |-> "quote", status_code |-> 200]>>

\* C3: a call in which every provider of the order was tried and none gave a
\* quote (thrown error, unusable payload or missing key) ends with the normal
\* result null; it never ends by throwing.
C3_AllFailReturnsNull ==
    \A c \in Callers :
        (/\ Returned(c) /\ calls[c].id > 0 /\ ~calls[c].hit
         /\ Len(calls[c].attempts) = Len(calls[c].providers)
         /\ \A k \in 1..Len(calls[c].attempts) : Failed(calls[c].attempts[k]))
        => calls[c].result = Null

\* two providers were tried, the first threw and the write of its usage
\* record failed as well, the second gave an unusable payload, null came back
C3_Witness ==
    \E c \in Callers :
        /\ Returned(c) /\ Len(calls[c].attempts) = 2
        /\ calls[c].attempts[1].outcome = "throw"
        /\ calls[c].attempts[2].outcome = "null"
        /\ api_usage[calls[c].id] = <<>>
        /\ faultsLeft < MaxFaults
        /\ calls[c].result = Null

\* C4: when no provider has a key in the environment, no adapter ever goes
\* upstream, no call appends a usage record, and every finished call has
\* returned null (not thrown), also when the selector found a database default.
C4_NoCredentialsNotFound ==
    (\A p \in Providers : env[p] = NoKey)
    => /\ nFetch = 0
       /\ \A c \in Callers :
            calls[c].id > 0 =>
              /\ api_usage[calls[c].id] = <<>>
              /\ calls[c].pc \in {"order", "fetch", "done", "responded"}
              /\ Returned(c) => calls[c].result = Null
              /\ \A k \in 1..Len(calls[c].attempts) : ~IsUpstream(calls[c].attempts[k])

\* no key anywhere, the selector still returned the database default, null came back
C4_Witness ==
    /\ \A p \in Providers : env[p] = NoKey
    /\ \E c \in Callers :
         /\ Returned(c) /\ Len(calls[c].providers) = 1
         /\ calls[c].result = Null

\* the previous call of the same request stream asked for the same symbol
Repeated(c) ==
    /\ calls[c].id > 0 /\ last[c].id > 0
    /\ last[c].symbol = calls[c].symbol

\* C5 (as claimed): a call for a symbol that starts less than the TTL after
\* the previous call for that symbol returned ends with the identical value
\* (compared as the JSON both are delivered in) and without an upstream call.
C5_TwoCallsIdentical ==
    \A c \in Callers :
        (/\ Repeated(c) /\ Returned(c)
         /\ calls[c].startAt - last[c].doneAt < TTL)
        => /\ JSONRoundTrip(calls[c].result) = JSONRoundTrip(last[c].result)
           /\ Upstream(calls[c]) = {}

\* C5 (amended): when the previous call returned a quote, and this call finds
\* the cache entry holding that quote at an age below the TTL, this call
\* returns at once the cached form of that quote (NaN stored as null), with
\* no adapter call and no usage record.
C5_RepeatServedFromCache ==
    \A c \in Callers :
        (/\ Repeated(c)
         /\ last[c].result.kind = "quote"
         /\ calls[c].readEntry.present
         /\ calls[c].readEntry.data = JSONRoundTrip(last[c].result)
         /\ calls[c].startAt - calls[c].readEntry.timestamp < TTL)
        => /\ Returned(c)
           /\ calls[c].result = JSONRoundTrip(last[c].result)
           /\ calls[c].attempts = <<>>
           /\ api_usage[calls[c].id] = <<>>

\* a fetched quote whose change was NaN came back from the cache, later, as null
C5_Witness ==
    \E c \in Callers :
        /\ Repeated(c) /\ Returned(c) /\ calls[c].hit
        /\ last[c].result.kind = "quote" /\ last[c].result.change = NaN
        /\ calls[c].result.change = JsonNull
        /\ calls[c].startAt > last[c].doneAt

\* C6 (as claimed): with no cache entry for the symbol, exactly one provider
\* holding a key and healthy storage, a finished call has returned that
\* provider's quote or null, and has appended exactly one usage record.
C6_OneProviderOneRecord ==
    \A c \in Callers :
        (/\ Returned(c) /\ calls[c].id > 0
         /\ ~calls[c].readEntry.present
         /\ Cardinality(Keyed) = 1)
        => /\ \/ calls[c].result = Null
              \/ calls[c].result.kind = "quote" /\ calls[c].result.src \in Keyed
           /\ Len(api_usage[calls[c].id]) = 1

\* the call read an entry whose age had reached the TTL
StaleRead(c) ==
    /\ calls[c].id > 0
    /\ calls[c].readEntry.present
    /\ calls[c].startAt - calls[c].readEntry.timestamp >= TTL

\* C9: a call that reads an entry whose age has reached the TTL does not serve
\* it: it goes to the providers (upstream whenever some provider has a key),
\* never returns the old entry's quote, returns null when no provider gives a
\* quote, and a quote it returns has replaced the old entry in the cache.
C9_StaleEntryNotServed ==
    \A c \in Callers :
        StaleRead(c) =>
          /\ ~calls[c].hit
          /\ Returned(c) =>
               /\ calls[c].result # calls[c].readEntry.data
               /\ calls[c].result.kind \in {"quote", "null"}
               /\ Keyed # {} => Upstream(calls[c]) # {}
               /\ calls[c].result.kind = "quote" =>
                    /\ calls[c].attempts[Len(calls[c].attempts)].outcome = "quote"
                    /\ cache[calls[c].symbol] =
                         [present |-> TRUE, data |-> JSONRoundTrip(calls[c].result),
                          timestamp |-> calls[c].doneAt]
               /\ calls[c].result.kind = "null" =>
                    \A k \in 1..Len(calls[c].attempts) :
                        calls[c].attempts[k].outcome # "quote"
                        \/ (k < Len(calls[c].attempts)
                            /\ calls[c].attempts[k + 1].outcome = "putfail")

\* a stale entry was read, a provider was asked, and its quote replaced the entry
C9_Witness ==
    \E c \in Callers :
        /\ StaleRead(c) /\ Returned(c)
        /\ calls[c].result.kind = "quote"
        /\ cache[calls[c].symbol].timestamp > calls[c].readEntry.timestamp

\* providers of the fixed list that hold an environment key, except `skip`
KeyedInFixedOrder(skip) ==
    SelectSeq(allProviders, LAMBDA p : env[p] # NoKey /\ p \notin skip)

\* rows the selector's default query matches in the table the order was read from
QueryDefaults ==
    {p \in Providers : /\ order.db[p].is_default
                       /\ order.db[p].is_active
                       /\ order.db[p].api_key # NULL}

C8_OrderOnlyCredentialed ==
    order.set =>
      \A k \in 1..Len(order.providers) :
          /\ getApiKey(env, order.providers[k]) # NULL
          /\ order.db[order.providers[k]].is_active

\* C10: a quote request for which every provider failed is answered with an
\* explicit error: never with a 200 carrying demo data or a stored price
C10_ExplicitErrorOnFailure ==
    http.set /\ http.failed => http.status # 200 /\ http.source = "error"

\* iterations of the provider loop that called trackUsage
TrackedAttempts(r) ==
    {k \in 1..Len(r.attempts) : r.attempts[k].outcome \in {"quote", "throw", "putfail"}}

\* some usage write of this invocation failed: fewer rows than trackUsage calls
UsageWriteFailed(c) ==
    Len(api_usage[calls[c].id]) < Cardinality(TrackedAttempts(calls[c]))

\* C19: when a usage write of a getQuote invocation failed, the invocation
\* still ends normally (nothing thrown), and with the result its provider
\* attempts determine: the quote of the last provider asked when that one gave
\* a quote and its cache write succeeded, null otherwise.
C19_UsageFailureAbsorbed ==
    \A c \in Callers :
        (/\ Returned(c) /\ calls[c].id > 0 /\ ~calls[c].hit
         /\ UsageWriteFailed(c))
        => /\ calls[c].result # Thrown
           /\ LET n == Len(calls[c].attempts) IN
              IF calls[c].attempts[n].outcome = "quote"
              THEN /\ calls[c].result.kind = "quote"
                   /\ calls[c].result.src = calls[c].attempts[n].provider
                   /\ cache[calls[c].symbol].data = JSONRoundTrip(calls[c].result)
              ELSE calls[c].result = Null

\* the write of the 200 record failed, and the provider's quote was returned
C19_Witness ==
    \E c \in Callers :
        /\ Returned(c) /\ calls[c].result.kind = "quote"
        /\ Len(calls[c].attempts) = 1
        /\ api_usage[calls[c].id] = <<>>

C12_TerminalStays ==
    (rmd.terminal /\ rmd.timers = 0)
    => rmd.status = "disconnected" /\ rmd.es \notin {"connecting", "open"}

\* C13 (as claimed): after disconnect(), and until connect() is called again,
\* no reconnect timer is pending and no EventSource is held.
C13_DisconnectStopsReconnect ==
    rmd.off => rmd.timers = 0 /\ rmd.es = "null"

\* C14 (as claimed): whenever the status shown is 'error', a reconnect timer
\* is pending.
C14_ErrorHasReconnectPending ==
    rmd.status = "error" => rmd.timers > 0

\* C15: once the lifetime of a stream has elapsed its interval is cleared and
\* its writer is closed, whether or not anything failed
C15_LifetimeEndsStream ==
    (sse.pc = "streaming" /\ sse.clock > LifetimeMs)
    => sse.intervalId = "cleared" /\ sse.writer = "closed" /\ sse.lifetime = "fired"

C15_Witness ==
    /\ sse.clock > LifetimeMs
    /\ ~sse.aborted
    /\ sse.lifetime = "fired"
    /\ sse.updateCount * IntervalMs >= LifetimeMs - IntervalMs
    /\ JsonFrame("error") \notin sse.frames

KnownBefore(m, k) ==
    LET earlier == {j \in 1..(k - 1) : m.trades[j].s = m.trades[k].s}
    IN IF earlier # {}
       THEN m.trades[CHOOSE j \in earlier : \A i \in earlier : i <= j].p
       ELSE m.before[m.trades[k].s]

\* C17: each trade of a message is delivered with change = price - L (0 for the
\* first trade of a symbol), and afterwards lastPrices holds its price
C17_TradeChangeAndLastPrice ==
    \A k \in 1..Len(rt.msg.trades) :
        LET t == rt.msg.trades[k]
            L == KnownBefore(rt.msg, k)
        IN /\ k <= Len(rt.msg.delivered)
           /\ rt.msg.delivered[k].price = t.p
           /\ rt.msg.delivered[k].change = IF L = NoPrice THEN 0 ELSE t.p - L
           /\ (\A j \in (k + 1)..Len(rt.msg.trades) : rt.msg.trades[j].s # t.s)
              => rt.lastPrices[t.s] = t.p

\* C18: a quote event calls every callback registered when it arrives exactly
\* once and in registration order, whether or not an earlier one throws
C18_AllCallbacksInOrder ==
    upd.events > 0
    => /\ Len(upd.invoked) = upd.registered
       /\ \A k \in 1..Len(upd.invoked) : upd.invoked[k] = k

C18_Witness ==
    /\ upd.events > 0
    /\ upd.registered >= 2
    /\ upd.updateCallbacks[1] = "throws"
    /\ Len(upd.invoked) = upd.registered

\* the request of t was answered and asked for a listed security that the
\* portfolio did not hold, or held less of, when it arrived
Oversold(t) ==
    /\ sell[t].pc = "done"
    /\ securities[sell[t].symbol].present
    /\ \/ ~sell[t].before[1][sell[t].symbol].present
       \/ sell[t].before[1][sell[t].symbol].quantity < sell[t].quantity

\* C20: a sell of a security that is not held, or of more than is held, is
\* answered 'Insufficient holdings' (unless the database fails first) and
\* changes neither holdings nor transactions
C20_OversellRejected ==
    \A t \in SeqSellers :
        Oversold(t)
        => /\ sell[t].reply.status # 500
              => sell[t].reply = Reply(400, "Insufficient holdings")
           /\ <<holdings, transactions>> = sell[t].before

C20_Witness ==
    \E t \in SeqSellers :
        /\ Oversold(t)
        /\ sell[t].reply.status = 400
        /\ sell[t].before[1][sell[t].symbol].present
        /\ Len(transactions) > 1

\* the loop iterations of an invocation: its attempts without the entries that
\* log a failed cache write
Iterations(r) == SelectSeq(r.attempts, LAMBDA a : a.outcome # "putfail")

\* attempt k gave a quote and its cache write did not fail
Succeeded(r, k) ==
    /\ r.attempts[k].outcome = "quote"
    /\ k < Len(r.attempts) => r.attempts[k + 1].outcome # "putfail"

C28_CacheWriteFailureKeepsQuote ==
    \A c \in Callers :
        \A k \in 1..Len(calls[c].attempts) :
            (Returned(c) /\ calls[c].attempts[k].outcome = "putfail")
            => /\ calls[c].result.kind = "quote"
               /\ k = Len(calls[c].attempts)
               /\ \A u \in 1..Len(api_usage[calls[c].id]) :
                      api_usage[calls[c].id][u].status_code = 200

\* the step is the cache write of invocation c
PutStep(c) == calls[c].pc = "put" /\ calls'[c].pc = "done"

\* C22: every cache write makes the entry of its own symbol the quote it wrote,
\* whatever was there, and leaves every other entry alone; nothing else changes
\* an entry, so after a race the entry is the quote of the last write
C22_LastWriterWins ==
    [][/\ \A c \in Callers :
             PutStep(c)
             => /\ cache'[calls[c].symbol] = Entry(calls[c].quote, now)
                /\ \A s \in Symbols \ {calls[c].symbol} : cache'[s] = cache[s]
       /\ cache' # cache => \E c \in Callers : PutStep(c)]_vars

\* both invocations fetched the same symbol upstream and got different quotes
C22_Witness ==
    /\ \A c \in Callers : Returned(c) /\ ~calls[c].hit /\ calls[c].result.kind = "quote"
    /\ calls["r1"].symbol = calls["r2"].symbol
    /\ calls["r1"].result # calls["r2"].result
    /\ cache[calls["r1"].symbol].data = JSONRoundTrip(calls["r1"].result)
    /\ calls["r1"].id < calls["r2"].id

\* C23: the status becomes 'connected' only from 'connecting'
C23_StreamingOnlyFromConnecting ==
    [][(rmd'.status = "connected" /\ rmd.status # "connected")
       => rmd.status = "connecting"]_vars

\* C24: every frame written to a stream is a JSON envelope of type connected,
\* quote, error or heartbeat
C24_OnlyEnvelopes ==
    \A f \in sse.frames :
        f.envelope /\ f.type \in {"connected", "quote", "error", "heartbeat"}

\* C25: once the client has aborted, the lifetime timer is no longer pending
\* and the writer has been closed exactly once
C25_AbortReleasesTimers ==
    /\ sse.closeCalls <= 1
    /\ (sse.aborted /\ sse.listener) => sse.lifetime # "pending" /\ sse.intervalId # "active"

\* C26: at most one update cycle of a stream is in progress
C26_OneCycleAtATime == sse.cycles <= 1

\* C27: on a socket opened by a reconnect, once its subscriptions are sent,
\* the provider sends exactly the symbols in subscribedSymbols
C27_ResubscribedAfterReconnect ==
    (rt.ws = "open" /\ ~rt.subTimer /\ rt.opened >= 2 /\ rt.inits = 1)
    => rt.upstream = rt.subscribedSymbols

\* quantity of security s in the transactions of one type
RECURSIVE Total(_, _, _)
Total(txs, s, type) ==
    IF txs = <<>> THEN 0
    ELSE (IF Head(txs).symbol = s /\ Head(txs).type = type THEN Head(txs).quantity ELSE 0)
         + Total(Tail(txs), s, type)

\* C29: the sell transactions of a security never add up to more than was
\* bought, and no holding has a negative quantity
C29_NeverOversold ==
    \A s \in Listed :
        /\ Total(transactions, s, "sell") <= Total(transactions, s, "buy")
        /\ holdings[s].quantity >= 0

\* C30: between requests, the holding of every security is what was bought
\* minus what was sold, and the row exists exactly when that is not zero
C30_HoldingsMatchTransactions ==
    Quiet
    => \A s \in Listed :
           LET net == Total(transactions, s, "buy") - Total(transactions, s, "sell")
           IN /\ holdings[s].quantity = net
              /\ holdings[s].present <=> net # 0

====
